---- MODULE Spec2Model ----
(***************************************************************************)
(* Model of src/data_apk.py: the session state (schema, rows, num_vars,    *)
(* temp_fields), the button handlers that change it, validate_and_cast,    *)
(* and the CSV upload / download paths.                                    *)
(*                                                                         *)
(* Python strings are sequences of one-character strings, so that strip(), *)
(* float(), str() and the CSV reader's type inference are computed on the  *)
(* characters.  A value (a raw input or a stored cell) is a record         *)
(* [t |-> <python type>, v |-> <its text>]:                                *)
(*    None   [t |-> "None",  v |-> <<>>]                                   *)
(*    str    [t |-> "str",   v |-> the characters]                         *)
(*    int    [t |-> "int",   v |-> str(i)]        (numpy int64 of a frame) *)
(*    float  [t |-> "float", v |-> repr(f)]                                *)
(*    nan    [t |-> "nan",   v |-> <<>>]          (float('nan'))           *)
(*    date   [t |-> "date",  v |-> d.isoformat()]                          *)
(*    NaT    [t |-> "NaT",   v |-> <<>>]          (pandas.NaT)             *)
(***************************************************************************)
EXTENDS Integers, Sequences, FiniteSets, TLC

VARIABLES schema, rows, num_vars, temp_fields, last

vars == <<schema, rows, num_vars, temp_fields, last>>

(***************************************************************************)
(* Strings                                                                 *)
(***************************************************************************)
Digits == {"0", "1", "2", "3", "4", "5", "6", "7", "8", "9"}

IsSpace(c) == c = " "

RECURSIVE LStrip(_)
LStrip(s) ==
    IF s = <<>> THEN s
    ELSE IF IsSpace(Head(s)) THEN LStrip(Tail(s)) ELSE s

RECURSIVE RStrip(_)
RStrip(s) ==
    IF s = <<>> THEN s
    ELSE IF IsSpace(s[Len(s)]) THEN RStrip(SubSeq(s, 1, Len(s) - 1)) ELSE s

\* str.strip()
Strip(s) == RStrip(LStrip(s))

AllDigits(s) == s # <<>> /\ \A i \in 1..Len(s) : s[i] \in Digits

\* the text of an integer literal read as a number: leading zeros dropped
RECURSIVE IntRepr(_)
IntRepr(s) ==
    IF Len(s) > 1 /\ Head(s) = "0" THEN IntRepr(Tail(s)) ELSE s

\* the fraction digits of a float's repr: trailing zeros dropped, one kept
RECURSIVE FracRepr(_)
FracRepr(s) ==
    IF s = <<>> THEN <<"0">>
    ELSE IF Len(s) > 1 /\ s[Len(s)] = "0" THEN FracRepr(SubSeq(s, 1, Len(s) - 1))
    ELSE s

\* position of the decimal point of s, 0 when there is none
DotAt(s) ==
    IF \E k \in 1..Len(s) : s[k] = "."
    THEN CHOOSE k \in 1..Len(s) : s[k] = "." /\ \A j \in 1..(k - 1) : s[j] # "."
    ELSE 0

IsIntText(s) == AllDigits(s)

\* digits "." digits; the decimal literals of the model carry no sign and no exponent
IsFloatText(s) ==
    LET k == DotAt(s)
    IN  /\ k > 1
        /\ AllDigits(SubSeq(s, 1, k - 1))
        /\ \A i \in (k + 1)..Len(s) : s[i] \in Digits

IsNumericText(s) == IsIntText(s) \/ IsFloatText(s)

\* repr(float(s)) for a numeric text s
FloatRepr(s) ==
    IF IsIntText(s) THEN IntRepr(s) \o <<".", "0">>
    ELSE LET k == DotAt(s)
         IN  IntRepr(SubSeq(s, 1, k - 1)) \o <<".">> \o FracRepr(SubSeq(s, k + 1, Len(s)))

\* YYYY-MM-DD with a month 01..12 and a day 01..31
IsIsoDate(s) ==
    /\ Len(s) = 10
    /\ s[5] = "-" /\ s[8] = "-"
    /\ \A i \in {1, 2, 3, 4, 6, 7, 9, 10} : s[i] \in Digits
    /\ <<s[6], s[7]>> \in {<<"0", d>> : d \in Digits \ {"0"}} \cup {<<"1", "0">>, <<"1", "1">>, <<"1", "2">>}
    /\ <<s[9], s[10]>> # <<"0", "0">>
    /\ s[9] \in {"0", "1", "2", "3"}
    /\ (s[9] = "3" => s[10] \in {"0", "1"})

(***************************************************************************)
(* Values                                                                  *)
(***************************************************************************)
None == [t |-> "None", v |-> <<>>]
NaN == [t |-> "nan", v |-> <<>>]
NaT == [t |-> "NaT", v |-> <<>>]
StrVal(s) == [t |-> "str", v |-> s]
IntVal(s) == [t |-> "int", v |-> s]
FloatVal(s) == [t |-> "float", v |-> s]
DateVal(s) == [t |-> "date", v |-> s]

Epoch == <<"1", "9", "7", "0", "-", "0", "1", "-", "0", "1">>

Types == <<"short text", "long text", "number", "date">>

\* dict.get(key, default) on a function used as a dict
Get(d, key, default) == IF key \in DOMAIN d THEN d[key] ELSE default

EmptyDict == <<>>

Names(sch) == {sch[i].name : i \in 1..Len(sch)}

(***************************************************************************)
(* validate_and_cast                                                       *)
(***************************************************************************)
Ok(x) == [ok |-> TRUE, val |-> x]
Err(x) == [ok |-> FALSE, val |-> x]

\* float(val)
ToFloat(val) ==
    CASE val.t = "str" ->
            IF IsNumericText(Strip(val.v)) THEN Ok(FloatVal(FloatRepr(Strip(val.v))))
            ELSE Err("ValueError")
      [] val.t = "int" -> Ok(FloatVal(val.v \o <<".", "0">>))
      [] val.t = "float" -> Ok(val)
      [] val.t = "nan" -> Ok(NaN)
      [] OTHER -> Err("TypeError")

\* pd.to_datetime(val).date(): a number counts nanoseconds from the epoch,
\* nan gives NaT and NaT.date() is NaT; a text must be a date (a text without
\* a year, a bare number included, is out of the timestamp range)
ToDate(val) ==
    CASE val.t = "str" ->
            IF IsIsoDate(Strip(val.v)) THEN Ok(DateVal(Strip(val.v)))
            ELSE Err("ValueError")
      [] val.t \in {"int", "float"} -> Ok(DateVal(Epoch))
      [] val.t \in {"nan", "NaT"} -> Ok(NaT)
      [] OTHER -> Err("TypeError")

\* str(val)
ToStr(val) ==
    CASE val.t = "nan" -> StrVal(<<"n", "a", "n">>)
      [] val.t = "NaT" -> StrVal(<<"N", "a", "T">>)
      [] OTHER -> StrVal(val.v)

\* lines 56-73 for one field: the value of the field, or the exception
CastField(raw, ftype) ==
    LET val == IF raw.t = "str" /\ Strip(raw.v) = <<>> THEN None ELSE raw
    IN  IF val = None THEN Ok(None)
        ELSE IF ftype = "number" THEN ToFloat(val)
        ELSE IF ftype = "date" THEN
            IF val.t = "date" THEN Ok(val) ELSE ToDate(val)
        ELSE Ok(ToStr(val))

\* the loop of validate_and_cast from field i on, out the fields cast so far
RECURSIVE CastFrom(_, _, _, _)
CastFrom(sch, row_dict, i, out) ==
    IF i > Len(sch) THEN Ok(out)
    ELSE LET name == sch[i].name
             ftype == sch[i].type
             c == CastField(Get(row_dict, name, None), ftype)
         IN  IF c.ok
             THEN CastFrom(sch, row_dict, i + 1,
                           [n \in DOMAIN out \cup {name} |-> IF n = name THEN c.val ELSE out[n]])
             ELSE Err([field |-> name, type |-> ftype])

\* variant: a field without a value gets no key in the row
validate_and_cast_Sparse(sch, row_dict) ==
    LET r == CastFrom(sch, row_dict, 1, EmptyDict)
    IN  IF r.ok THEN Ok([n \in {m \in DOMAIN r.val : r.val[m] # None} |-> r.val[n]]) ELSE r

\* variant: every field is cast and the last failure is the one reported
validate_and_cast_LastError(sch, row_dict) ==
    LET bad == {i \in 1..Len(sch) : ~CastField(Get(row_dict, sch[i].name, None), sch[i].type).ok}
        top == CHOOSE i \in bad : \A j \in bad : j <= i
    IN  IF bad = {} THEN CastFrom(sch, row_dict, 1, EmptyDict)
        ELSE Err([field |-> sch[top].name, type |-> sch[top].type])

validate_and_cast(sch, row_dict) == CastFrom(sch, row_dict, 1, EmptyDict)

(***************************************************************************)
(* CSV: pd.read_csv, the frame's rows, DataFrame.to_csv.  A file is        *)
(* [header |-> names, data |-> rows of cell texts]; quoting and the split  *)
(* into lines are the CSV library's and are not modelled.                  *)
(***************************************************************************)
\* the members of read_csv's default na_values over the model's characters
NaStrings == {<<>>, <<"n", "a", "n">>, <<"N", "a", "N">>, <<"N", "A">>}

IsNa(c) == c \in NaStrings

Column(file, j) == [i \in 1..Len(file.data) |-> file.data[i][j]]

\* the dtype read_csv infers for column j
ColDtype(file, j) ==
    LET col == Column(file, j)
        idx == 1..Len(col)
    IN  IF idx = {} THEN "object"
        ELSE IF \A i \in idx : IsIntText(Strip(col[i])) THEN "int64"
        ELSE IF \A i \in idx : IsNa(col[i]) \/ IsNumericText(Strip(col[i])) THEN "float64"
        ELSE "object"

\* the value read_csv stores for the cell text c in a column of that dtype
CellValue(dtype, c) ==
    IF dtype = "int64" THEN IntVal(IntRepr(Strip(c)))
    ELSE IF IsNa(c) THEN NaN
    ELSE IF dtype = "float64" THEN FloatVal(FloatRepr(Strip(c)))
    ELSE StrVal(c)

read_csv(file) ==
    LET dtypes == [j \in 1..Len(file.header) |-> ColDtype(file, j)]
    IN  [columns |-> file.header,
         dtypes |-> dtypes,
         data |-> [i \in 1..Len(file.data) |->
                     [j \in 1..Len(file.header) |-> CellValue(dtypes[j], file.data[i][j])]]]

InSeq(x, s) == \E i \in 1..Len(s) : s[i] = x

ColIndex(columns, name) == CHOOSE j \in 1..Len(columns) : columns[j] = name

expected_cols(sch) == [i \in 1..Len(sch) |-> sch[i].name]

\* for _, r in df_new[expected_cols].iterrows(): r.to_dict().  A row of the
\* frame is a Series of the columns' common dtype: beside a float column an
\* int becomes a float, beside an object column every value keeps its type.
RowDicts(sch, df) ==
    LET at == [n \in Names(sch) |-> ColIndex(df.columns, n)]
        dts == {df.dtypes[at[n]] : n \in Names(sch)}
        Up(val) == IF "object" \notin dts /\ "float64" \in dts /\ val.t = "int"
                   THEN FloatVal(val.v \o <<".", "0">>)
                   ELSE val
    IN  [i \in 1..Len(df.data) |-> [n \in Names(sch) |-> Up(df.data[i][at[n]])]]

\* the text to_csv writes for a stored value
CellText(val) == IF val.t \in {"None", "nan", "NaT"} THEN <<>> ELSE val.v

\* schema_to_dataframe().to_csv(index=False)
to_csv(sch, store) ==
    [header |-> expected_cols(sch),
     data |-> [i \in 1..Len(store) |-> [j \in 1..Len(sch) |-> CellText(store[i][sch[j].name])]]]

(***************************************************************************)
(* Save schema                                                             *)
(***************************************************************************)
DefaultField == [name |-> <<>>, type |-> "short text"]

\* the loop of lines 138-150 from slot i on
RECURSIVE ScanFrom(_, _, _, _, _)
ScanFrom(tf, n, i, new_schema, seen) ==
    IF i >= n THEN Ok(new_schema)
    ELSE LET nm == Strip(Get(tf, i, DefaultField).name)
             tp == Get(tf, i, DefaultField).type
         IN  IF nm = <<>> THEN Err([kind |-> "empty", pos |-> i + 1, name |-> nm])
             ELSE IF nm \in seen THEN Err([kind |-> "duplicate", pos |-> 0, name |-> nm])
             ELSE ScanFrom(tf, n, i + 1, Append(new_schema, [name |-> nm, type |-> tp]),
                           seen \cup {nm})

\* variant: empty names are looked for in every slot before duplicates are
CollectSchema_EmptyFirst(tf, n) ==
    LET empty == {i \in 0..(n - 1) : Strip(Get(tf, i, DefaultField).name) = <<>>}
        low == CHOOSE i \in empty : \A j \in empty : i <= j
    IN  IF empty # {} THEN Err([kind |-> "empty", pos |-> low + 1, name |-> <<>>])
        ELSE ScanFrom(tf, n, 0, <<>>, {})

CollectSchema(tf, n) == ScanFrom(tf, n, 0, <<>>, {})

(***************************************************************************)
(* CSV upload: the loop of lines 227-234 from row i on                     *)
(***************************************************************************)
\* variant: the loop ends at the first row that fails
RECURSIVE ImportFrom_StopsAtBad(_, _, _, _, _, _)
ImportFrom_StopsAtBad(sch, dicts, i, store, bad_rows, added) ==
    IF i > Len(dicts) THEN [rows |-> store, bad_rows |-> bad_rows, added |-> added]
    ELSE LET r == validate_and_cast(sch, dicts[i])
         IN  IF ~r.ok
             THEN [rows |-> store, bad_rows |-> Append(bad_rows, r.val), added |-> added]
             ELSE ImportFrom_StopsAtBad(sch, dicts, i + 1, Append(store, r.val), bad_rows,
                                        added + 1)

RECURSIVE ImportFrom(_, _, _, _, _, _)
ImportFrom(sch, dicts, i, store, bad_rows, added) ==
    IF i > Len(dicts) THEN [rows |-> store, bad_rows |-> bad_rows, added |-> added]
    ELSE LET r == validate_and_cast(sch, dicts[i])
         IN  IF ~r.ok
             THEN ImportFrom(sch, dicts, i + 1, store, Append(bad_rows, r.val), added)
             ELSE ImportFrom(sch, dicts, i + 1, Append(store, r.val), bad_rows, added + 1)

\* bad_rows[:5]
ShownErrors == 5

Shown(bad_rows) == SubSeq(bad_rows, 1, IF Len(bad_rows) < ShownErrors THEN Len(bad_rows) ELSE ShownErrors)

\* variant: a column of the file that the schema lacks counts as a mismatch too
missing_cols_AnyMismatch(sch, df) ==
    SelectSeq(expected_cols(sch), LAMBDA c : ~InSeq(c, df.columns))
        \o SelectSeq(df.columns, LAMBDA c : ~InSeq(c, expected_cols(sch)))

missing_cols(sch, df) == SelectSeq(expected_cols(sch), LAMBDA c : ~InSeq(c, df.columns))

extra_cols(sch, df) == SelectSeq(df.columns, LAMBDA c : ~InSeq(c, expected_cols(sch)))

(***************************************************************************)
(* Bounds and inputs                                                       *)
(***************************************************************************)
\* number_input(value=3): the field count a session starts with
DefaultNumVars == 3
\* the largest field count entered (the widget allows 1..50)
MaxVars == 3
\* the most rows the store holds in the session specification
MaxRows == 1
\* the most rows the store holds in the form specification
MaxStore == 3
\* the most rows the store holds in the upload specification
MaxImported == 1
\* the most data rows of an upload generated from a set of rows
MaxCsvRows == 2

A == <<"a">>
B == <<"b">>
X == <<"x">>
Blank == <<" ">>
Seven == <<"0", "7">>
Half == <<"7", ".", "5">>
Day == <<"2", "0", "2", "3", "-", "0", "1", "-", "0", "5">>

\* what the user types into a draft slot
DraftInputs ==
    {[name |-> <<" ", "a">>, type |-> "short text"],
     [name |-> A, type |-> "number"],
     [name |-> B, type |-> "date"]}

\* what the user types into a text_input of the row form
FormTexts == {<<>>, Blank, X, Seven}
SessionTexts == {X, Seven}
\* what the date_input of the row form returns
FormDates == {None, DateVal(Day)}

\* the raw rows the form can submit for a schema (lines 186-199)
FormRows(sch, texts) ==
    {r \in [Names(sch) -> {StrVal(c) : c \in texts} \cup FormDates] :
        \A i \in 1..Len(sch) :
            IF sch[i].type = "date" THEN r[sch[i].name] \in FormDates
            ELSE r[sch[i].name].t = "str"}

\* the files with header h and at most k data rows, each one of lines
FilesOver(h, lines, k) ==
    {[header |-> h, data |-> d] : d \in UNION {[1..m -> lines] : m \in 0..k}}

\* a file of ShownErrors + 2 rows "x", but row k "07" and row l "7.5"
LongFile(k, l) ==
    [header |-> <<A>>,
     data |-> [i \in 1..(ShownErrors + 2) |->
                 <<IF i = k THEN Seven ELSE IF i = l THEN Half ELSE X>>]]

LongFiles == {LongFile(k, l) : k \in 0..(ShownErrors + 2), l \in {0, ShownErrors + 2}}

SessionFiles ==
    FilesOver(<<A>>, {<<Seven>>}, MaxRows) \cup FilesOver(<<B, A>>, {<<X, X>>}, MaxRows)

CsvFiles ==
    FilesOver(<<A>>, {<<c>> : c \in {<<>>, Blank, X, Seven, Day}}, MaxCsvRows)
        \cup FilesOver(<<B, A>>, {<<X, <<>>>>, <<X, Seven>>, <<Seven, X>>, <<<<>>, Seven>>},
                       MaxCsvRows)
        \cup LongFiles

\* the schemas the form and upload specifications start from, each one committed by
\* Save schema
StoreSchemas ==
    {<<[name |-> A, type |-> Types[k]]>> : k \in 1..4}
        \cup {<<[name |-> A, type |-> "number"], [name |-> B, type |-> "short text"]>>,
              <<[name |-> B, type |-> "date"], [name |-> A, type |-> "long text"]>>,
              <<[name |-> A, type |-> "number"], [name |-> B, type |-> "number"]>>}

(***************************************************************************)
(* The session and its handlers.  last is the handler that ran last and    *)
(* what it displayed (st.error / st.warning / st.success / the download).  *)
(***************************************************************************)
Shows(op, ok, msg) == [op |-> op, ok |-> ok, msg |-> msg]

\* init_state, lines 30-38
Init ==
    /\ schema = <<>>
    /\ rows = <<>>
    /\ num_vars = DefaultNumVars
    /\ temp_fields = EmptyDict
    /\ last = Shows("init", TRUE, <<>>)

\* lines 96-98
SetNumVars(n) ==
    /\ n # num_vars
    /\ num_vars' = n
    /\ last' = Shows("draft", TRUE, <<>>)
    /\ UNCHANGED <<schema, rows, temp_fields>>

\* lines 103-109
CreateFields ==
    /\ temp_fields' = [i \in 0..(num_vars - 1) |-> DefaultField]
    /\ last' = Shows("draft", TRUE, <<>>)
    /\ UNCHANGED <<schema, rows, num_vars>>

\* lines 118-130, the slot i whose widgets return f
EditDraft(i, f) ==
    /\ i < num_vars
    /\ IF i \in DOMAIN temp_fields THEN temp_fields[i] # f ELSE TRUE
    /\ temp_fields' = [k \in DOMAIN temp_fields \cup {i} |-> IF k = i THEN f ELSE temp_fields[k]]
    /\ last' = Shows("draft", TRUE, <<>>)
    /\ UNCHANGED <<schema, rows, num_vars>>

\* variant: the store is emptied before the draft is validated
SaveSchema_ClearsFirst ==
    LET r == CollectSchema(temp_fields, num_vars)
    IN  IF ~r.ok
        THEN /\ last' = Shows("commit", FALSE, r.val)
             /\ rows' = <<>>
             /\ UNCHANGED <<schema, num_vars, temp_fields>>
        ELSE /\ schema' = r.val
             /\ rows' = <<>>
             /\ temp_fields' = EmptyDict
             /\ last' = Shows("commit", TRUE, <<>>)
             /\ UNCHANGED num_vars

\* variant: the store is kept when the committed schema does not change
SaveSchema_KeepsRowsIfSame ==
    LET r == CollectSchema(temp_fields, num_vars)
    IN  IF ~r.ok
        THEN /\ last' = Shows("commit", FALSE, r.val)
             /\ UNCHANGED <<schema, rows, num_vars, temp_fields>>
        ELSE /\ schema' = r.val
             /\ rows' = IF r.val = schema THEN rows ELSE <<>>
             /\ temp_fields' = EmptyDict
             /\ last' = Shows("commit", TRUE, <<>>)
             /\ UNCHANGED num_vars

\* lines 132-159
SaveSchema ==
    LET r == CollectSchema(temp_fields, num_vars)
    IN  IF ~r.ok
        THEN /\ last' = Shows("commit", FALSE, r.val)
             /\ UNCHANGED <<schema, rows, num_vars, temp_fields>>
        ELSE /\ schema' = r.val
             /\ rows' = <<>>
             /\ temp_fields' = EmptyDict
             /\ last' = Shows("commit", TRUE, <<>>)
             /\ UNCHANGED num_vars

\* variant: Reset empties the draft as well
ResetSchema_ClearsDraft ==
    /\ schema # <<>>
    /\ schema' = <<>>
    /\ rows' = <<>>
    /\ temp_fields' = EmptyDict
    /\ last' = Shows("reset", TRUE, <<>>)
    /\ UNCHANGED num_vars

\* lines 162, 170-173
ResetSchema ==
    /\ schema # <<>>
    /\ schema' = <<>>
    /\ rows' = <<>>
    /\ last' = Shows("reset", TRUE, <<>>)
    /\ UNCHANGED <<num_vars, temp_fields>>

\* lines 162, 175-177
ClearData ==
    /\ schema # <<>>
    /\ rows' = <<>>
    /\ last' = Shows("clear", TRUE, <<>>)
    /\ UNCHANGED <<schema, num_vars, temp_fields>>

\* lines 201-208: the store and the message after the form submits new_row
SubmitResult(sch, store, new_row) ==
    LET r == validate_and_cast(sch, new_row)
    IN  IF ~r.ok
        THEN [rows |-> store, last |-> Shows("submit", FALSE, r.val)]
        ELSE [rows |-> Append(store, r.val), last |-> Shows("submit", TRUE, <<>>)]

\* lines 162, 185-208
AddRow(new_row, cap) ==
    /\ schema # <<>>
    /\ LET s == SubmitResult(schema, rows, new_row)
       IN  /\ Len(s.rows) <= cap
           /\ rows' = s.rows
           /\ last' = s.last
    /\ UNCHANGED <<schema, num_vars, temp_fields>>

\* lines 213-238: the store and the messages after the upload of file
UploadResult(sch, store, file) ==
    LET df_new == read_csv(file)
        missing == missing_cols(sch, df_new)
    IN  IF missing # <<>>
        THEN [rows |-> store, last |-> Shows("import", FALSE, [missing |-> missing])]
        ELSE LET r == ImportFrom(sch, RowDicts(sch, df_new), 1, store, <<>>, 0)
             IN  [rows |-> r.rows,
                  last |-> Shows("import", TRUE,
                                 [added |-> r.added, bad_rows |-> r.bad_rows,
                                  shown |-> Shown(r.bad_rows)])]

\* lines 162, 212-240
UploadCsv(file, cap) ==
    /\ schema # <<>>
    /\ LET u == UploadResult(schema, rows, file)
       IN  /\ Len(u.rows) <= cap
           /\ rows' = u.rows
           /\ last' = u.last
    /\ UNCHANGED <<schema, num_vars, temp_fields>>

\* lines 162, 243-250
DownloadCsv ==
    /\ schema # <<>>
    /\ rows # <<>>
    /\ last' = Shows("download", TRUE, to_csv(schema, rows))
    /\ UNCHANGED <<schema, rows, num_vars, temp_fields>>

Next ==
    \/ \E n \in 1..MaxVars : SetNumVars(n)
    \/ CreateFields
    \/ \E i \in 0..(MaxVars - 1), f \in DraftInputs \cup {DefaultField} : EditDraft(i, f)
    \/ SaveSchema
    \/ ResetSchema
    \/ ClearData
    \/ \E new_row \in FormRows(schema, SessionTexts) : AddRow(new_row, MaxRows)
    \/ \E file \in SessionFiles : UploadCsv(file, MaxRows)

Spec == Init /\ [][Next]_vars

\* a session right after Save schema has committed one of StoreSchemas
InitStore ==
    /\ schema \in StoreSchemas
    /\ rows = <<>>
    /\ num_vars = Len(schema)
    /\ temp_fields = EmptyDict
    /\ last = Shows("commit", TRUE, <<>>)

\* the row form, Clear data and the download under a committed schema
NextForm ==
    \/ \E new_row \in FormRows(schema, FormTexts) : AddRow(new_row, MaxStore)
    \/ ClearData
    \/ DownloadCsv

SpecForm == InitStore /\ [][NextForm]_vars

\* the upload and Clear data under a committed schema
NextCsv ==
    \/ \E file \in CsvFiles : UploadCsv(file, MaxImported)
    \/ ClearData

SpecCsv == InitStore /\ [][NextCsv]_vars

(***************************************************************************)
(* Claims about the session (specification Spec)                           *)
(***************************************************************************)

\* C1: every stored row has exactly the schema's field names as keys, and
\* the store is empty whenever the schema is empty.
RowKeysAreSchemaNames ==
    /\ \A i \in 1..Len(rows) : DOMAIN rows[i] = Names(schema)
    /\ schema = <<>> => rows = <<>>

\* a two-field schema holds a row that an upload has added
RowStoredUnderTwoFields == Len(schema) = 2 /\ rows # <<>> /\ last.op = "import" /\ last.ok

\* C2: a Save schema that fails leaves the committed schema and the stored
\* rows as they were.
FailedCommitChangesNothing ==
    [][(last'.op = "commit" /\ ~last'.ok) => (schema' = schema /\ rows' = rows)]_vars

\* a commit has failed on a duplicate name while a schema and a row exist
FailedCommitOverData ==
    /\ last.op = "commit" /\ ~last.ok /\ last.msg.kind = "duplicate"
    /\ schema # <<>> /\ rows # <<>>

ResetClearsDraftToo ==
    last.op = "reset" => (schema = <<>> /\ rows = <<>> /\ temp_fields = EmptyDict)

\* C4 amended: Reset empties the schema and the store and leaves the draft
\* and the field count as they were.
ResetKeepsDraft ==
    [][last'.op = "reset" =>
          /\ schema' = <<>> /\ rows' = <<>>
          /\ temp_fields' = temp_fields /\ num_vars' = num_vars]_vars

\* Reset has run over a draft that was edited after the commit
ResetOverDraft == last.op = "reset" /\ temp_fields # EmptyDict

\* the trimmed name and the type of draft slot i (1-based) as Save schema reads them
DraftName(i) == Strip(Get(temp_fields, i - 1, DefaultField).name)
DraftType(i) == Get(temp_fields, i - 1, DefaultField).type

\* slot i breaks a rule: its name is empty, or an earlier slot has it
Violates(i) == DraftName(i) = <<>> \/ \E j \in 1..(i - 1) : DraftName(j) = DraftName(i)

FirstViolation == CHOOSE i \in 1..num_vars : Violates(i) /\ \A j \in 1..(i - 1) : ~Violates(j)

WellFormed(sch) ==
    \A i \in 1..Len(sch) :
        sch[i].name # <<>> /\ \A j \in 1..Len(sch) : sch[j].name = sch[i].name => j = i

\* C10: Save schema succeeds exactly when no slot 1..n violates a rule; a
\* failure reports the lowest violating slot; a success commits the trimmed
\* names with their types in draft order; a committed schema is well formed.
CommitScansInOrder ==
    [][/\ last'.op = "commit" =>
            /\ last'.ok <=> \A i \in 1..num_vars : ~Violates(i)
            /\ ~last'.ok =>
                 last'.msg = IF DraftName(FirstViolation) = <<>>
                             THEN [kind |-> "empty", pos |-> FirstViolation, name |-> <<>>]
                             ELSE [kind |-> "duplicate", pos |-> 0,
                                   name |-> DraftName(FirstViolation)]
            /\ last'.ok =>
                 schema' = [i \in 1..num_vars |-> [name |-> DraftName(i), type |-> DraftType(i)]]
       /\ WellFormed(schema')]_vars

\* a commit has reported the duplicate in slot 2 although slot 3 is empty
DuplicateBeforeEmpty ==
    /\ last.op = "commit" /\ ~last.ok /\ last.msg.kind = "duplicate"
    /\ num_vars = 3 /\ DraftName(3) = <<>>

(***************************************************************************)
(* Claims about the row form (SpecForm) and the upload (SpecCsv)           *)
(***************************************************************************)
Range(f) == {f[x] : x \in DOMAIN f}

HasAllColumns(sch, file) == \A n \in Names(sch) : InSeq(n, file.header)

\* C5: an upload whose header lacks a schema field adds no row and reports
\* exactly the absent field names; columns outside the schema never abort.
MissingColumnAborts ==
    schema # <<>> =>
        \A file \in CsvFiles :
            LET absent == {n \in Names(schema) : ~InSeq(n, file.header)}
                u == UploadResult(schema, rows, file)
            IN  /\ absent # {} =>
                      /\ u.rows = rows
                      /\ u.last.op = "import" /\ ~u.last.ok
                      /\ Range(u.last.msg.missing) = absent
                      /\ Len(u.last.msg.missing) = Cardinality(absent)
                /\ absent = {} => u.last.ok

\* an upload without column b was refused while the store held a row
RefusedForMissingB ==
    /\ last.op = "import" /\ ~last.ok /\ last.msg.missing = <<B>>
    /\ rows # <<>>

\* the indices of the rows of dicts that validate, in order
Accepted(sch, dicts) ==
    SelectSeq([i \in 1..Len(dicts) |-> i], LAMBDA i : validate_and_cast(sch, dicts[i]).ok)

\* C6: an upload with a complete header appends the cast of every row that
\* validates, in file order, skips the others, counts both, and shows at
\* most five errors.
ImportKeepsValidRows ==
    schema # <<>> =>
        \A file \in CsvFiles :
            HasAllColumns(schema, file) =>
                LET u == UploadResult(schema, rows, file)
                    dicts == RowDicts(schema, read_csv(file))
                    acc == Accepted(schema, dicts)
                IN  /\ u.last.op = "import" /\ u.last.ok
                    /\ u.rows = rows \o [k \in 1..Len(acc) |->
                                           validate_and_cast(schema, dicts[acc[k]]).val]
                    /\ u.last.msg.added = Len(acc)
                    /\ Len(u.last.msg.bad_rows) = Len(file.data) - Len(acc)
                    /\ Len(u.last.msg.shown) <= ShownErrors
                    /\ u.last.msg.shown = SubSeq(u.last.msg.bad_rows, 1, Len(u.last.msg.shown))

\* an upload added a row and skipped more rows than it shows errors for
ImportedAroundFailures ==
    /\ last.op = "import" /\ last.ok
    /\ last.msg.added > 0
    /\ Len(last.msg.bad_rows) > ShownErrors
    /\ rows # <<>>

\* the fields of sch whose value in new_row fails to cast
FailingFields(sch, new_row) ==
    {i \in 1..Len(sch) : ~CastField(Get(new_row, sch[i].name, None), sch[i].type).ok}

\* C7: a submitted row with a failing field changes nothing and the error
\* names the first failing field in schema order; a row without one is
\* appended at the end of the store.
SubmitAllOrNothing ==
    schema # <<>> =>
        \A new_row \in FormRows(schema, FormTexts) :
            LET s == SubmitResult(schema, rows, new_row)
                bad == FailingFields(schema, new_row)
                first == CHOOSE i \in bad : \A j \in bad : i <= j
            IN  /\ bad # {} =>
                      /\ s.rows = rows
                      /\ ~s.last.ok
                      /\ s.last.msg.field = schema[first].name
                /\ bad = {} =>
                      /\ s.last.ok
                      /\ Len(s.rows) = Len(rows) + 1
                      /\ SubSeq(s.rows, 1, Len(rows)) = rows
                      /\ s.rows[Len(s.rows)] =
                            [n \in Names(schema) |->
                                LET i == CHOOSE k \in 1..Len(schema) : schema[k].name = n
                                IN  CastField(new_row[n], schema[i].type).val]

\* a submission was refused for field a of two number fields, over a stored row
RefusedForFirstField ==
    /\ last.op = "submit" /\ ~last.ok /\ last.msg.field = A
    /\ Len(schema) = 2 /\ schema[1].type = "number" /\ schema[2].type = "number"
    /\ rows # <<>>

\* every row of store is the cast of a row the form can submit
BuiltBySubmit(sch, store) ==
    \A i \in 1..Len(store) :
        \E r \in FormRows(sch, FormTexts) : validate_and_cast(sch, r) = Ok(store[i])

\* C8: a store built by the form, downloaded and uploaded into an empty
\* store under the same schema, comes back row for row.
RoundTrip ==
    (schema # <<>> /\ rows # <<>> /\ BuiltBySubmit(schema, rows)) =>
        UploadResult(schema, <<>>, to_csv(schema, rows)).rows = rows

\* the raw values that count as no value
AbsentRaws == {None, StrVal(<<>>), StrVal(Blank), StrVal(<<" ", " ">>)}

\* C9: for every field type a missing, None, empty-cell or whitespace value
\* casts to None without an error; only a non-blank text of a number or date
\* field fails to cast.
BlankIsNull ==
    /\ \A k \in 1..4 : \A raw \in AbsentRaws : CastField(raw, Types[k]) = Ok(None)
    /\ schema # <<>> =>
        /\ \A new_row \in FormRows(schema, FormTexts) : \A i \in 1..Len(schema) :
              ~CastField(new_row[schema[i].name], schema[i].type).ok =>
                  /\ schema[i].type \in {"number", "date"}
                  /\ new_row[schema[i].name].t = "str"
                  /\ Strip(new_row[schema[i].name].v) # <<>>
        /\ \A file \in CsvFiles :
              HasAllColumns(schema, file) =>
                  LET dicts == RowDicts(schema, read_csv(file))
                  IN  \A r \in 1..Len(dicts) : \A i \in 1..Len(schema) :
                        LET cell == file.data[r][ColIndex(file.header, schema[i].name)]
                            c == CastField(dicts[r][schema[i].name], schema[i].type)
                        IN  /\ Strip(cell) = <<>> => c = Ok(None)
                            /\ ~c.ok => (schema[i].type \in {"number", "date"}
                                         /\ Strip(cell) # <<>>)

====
